---- MODULE Spec2Model ----
(***************************************************************************)
(* A model of the zsh autocomplete engine: the command trie (trie.c), the  *)
(* MRU priority queue (priority_queue.c) and the persistent store with the *)
(* per-invocation driver (autocomplete.c).                                 *)
(*                                                                         *)
(* Strings are sequences of byte values (0..255).  A char* that may be     *)
(* NULL is the empty sequence when the code never produces an empty        *)
(* string there; a node pointer that may be NULL is <<>> or <<path>>.      *)
(***************************************************************************)
EXTENDS Integers, Sequences, FiniteSets, TLC

VARIABLES
    now,            \* the wall clock read by time(NULL)
    op,             \* the last call made: [name, arg, res]
    trie,           \* a Trie driven through the API of trie.c
    inserted,       \* history variable: the strings passed to trie_insert so far
    trie_ops,       \* number of mutating trie calls made so far
    pq,             \* a PriorityQueue driven through the API of priority_queue.c
    pq_ops,         \* number of mutating queue calls made so far
    store,          \* the cache file: [exists, bytes]
    command_trie,   \* autocomplete.c's trie as the last invocation left it
    history_array,  \* autocomplete.c's history as the last invocation left it
    invocations,    \* number of invocations of the program so far
    stdin_reads,    \* getline calls on stdin made by the last invocation
    procs,          \* concurrent invocations: [pc, command, g, buf, epoch,
                    \* before] each; before is the file's content at fopen
    save_log        \* [opens, last]: saves begun so far, process that wrote last

vars == <<now, op, trie, inserted, trie_ops, pq, pq_ops,
          store, command_trie, history_array, invocations, stdin_reads,
          procs, save_log>>

trie_vars == <<trie, inserted, trie_ops>>
pq_vars == <<pq, pq_ops>>
main_vars == <<store, command_trie, history_array, invocations, stdin_reads>>
race_vars == <<procs, save_log>>

(***************************************************************************)
(* Bounds and input sets                                                   *)
(***************************************************************************)

\* trie.c keeps TrieNode* stack[1000] and pushes while stack_top < 999; the
\* model scales the number of usable stack slots down with the tries it builds.
StackLimit == 2

\* Mutating calls made on the trie in one behaviour.
MaxTrieOps == 4

\* priority_queue.h sets MAX_MRU_SIZE to 100; the model scales the capacity
\* of the queue down with the number of commands it inserts.
MAX_MRU_SIZE == 3

\* Mutating calls made on the queue in one behaviour.
MaxPqOps == 4

\* The invocations that may overlap.
RaceProcs == {1, 2}

\* Invocations started in one behaviour of the overlapping processes.
MaxRaceInvocations == 3

\* 'a', 'b' and 'aaa'
RaceCommands == { <<97>>, <<98>>, <<97, 97, 97>> }

\* Lines of a cache file as load_trie_from_file may find it: two records,
\* and lines as an older or damaged cache holds them: "b" (no fields),
\* "|1|2" (no command), "a|x|y" (fields that are no numbers), "b|1|2|3"
\* (one field too many), "a|-1|1" (a negative frequency), and
\* "aa|21474837|1" (a frequency whose hundredfold is no int).
LoadLines ==
    { <<97, 124, 49, 124, 49, 48, 48, 48, 48, 48>>,
      <<97, 97, 124, 50, 49, 52, 55, 52, 56, 51, 55, 124, 49>>,
      <<97, 124, 45, 49, 124, 49>>,
      <<97, 97, 124, 50, 124, 57, 57, 48, 48, 48>>,
      <<98>>,
      <<124, 49, 124, 50>>,
      <<97, 124, 120, 124, 121>>,
      <<98, 124, 49, 124, 50, 124, 51>> }

\* Cache files of at most two lines, each line ended by '\n'.
LoadFiles ==
    { <<>> } \cup { l \o <<10>> : l \in LoadLines }
             \cup { l \o <<10>> \o m \o <<10>> : l \in LoadLines, m \in LoadLines }

\* Clock values for the queue: a start time and 5 minutes later.
PqClock == {100000, 100300}

\* 'a', 'b', 'c' and the empty string.
PqCommands == { <<>>, <<97>>, <<98>>, <<99>> }

PqFrequencies == {1, 2}

\* Timestamps handed to pq_insert: fresh, and more than a day old.
PqTimestamps == {100000, 10000}

\* Invocations of the program that may write the store (init, update) in one
\* behaviour.
MaxInvocations == 2

\* Clock values for the program: a start time and one more than an hour later.
MainClock == {100000, 103600}

\* The streams piped to "init", as their lines: 'a' = 97, '2' = 50,
\* '|' = 124, 200 = a byte outside ASCII; one stream has a blank line, one
\* repeats a line.
MainStdin ==
    { <<>>,
      << <<97>> >>,
      << <<50>> >>,
      << <<97, 124, 50>> >>,
      << <<200>> >>,
      << <<>>, <<97>> >>,
      << <<97>>, <<97>> >>,
      << <<50>>, <<97, 97>> >>,
      << <<97>>, <<50>>, <<97, 97>> >> }

\* The commands handed to "update".
MainCommands == { <<>>, <<97>>, <<97, 97>>, <<50>>, <<97, 124, 50>>, <<200>> }

\* The buffers handed to "init" as argv[2]: none ("") and "a".
InitBuffers == { <<>>, <<97>> }

\* The buffers handed to "ghost" and "history".
MainPrefixes == { <<>>, <<97>>, <<50>>, <<98>> }

NavDirections == { "up", "down", "" }

\* Clock values: a start time and one more than an hour later.
TrieClock == {100000, 103600}

\* 'a' = 97, '2' = 50, '|' = 124, 200 = a byte outside ASCII (>= 128).
TrieCommands ==
    { <<>>, <<97>>, <<50>>, <<200>>, <<97, 200>>, <<200, 97>>,
      <<97, 50>>, <<97, 97>>, <<97, 124>> }

\* Every literal prefix of every command.
TriePrefixes ==
    UNION { { SubSeq(c, 1, k) : k \in 0..Len(c) } : c \in TrieCommands }

(***************************************************************************)
(* trie.c                                                                  *)
(***************************************************************************)

ALPHABET_SIZE == 128

trie_node_create ==
    [ is_end_of_word |-> FALSE, full_command |-> <<>>,
      frequency |-> 0, last_used |-> 0 ]

\* A trie is the set of its nodes, each named by the path of bytes from the
\* root (children[index] of node p is node Append(p, index)), and the count.
trie_create ==
    [ nodes |-> (<<>> :> trie_node_create), total_commands |-> 0 ]

\* The walk of trie_insert: one node per byte, bytes >= ALPHABET_SIZE skipped.
RECURSIVE insert_walk(_, _, _, _)
insert_walk(nodes, current, command, i) ==
    IF i > Len(command)
    THEN [ nodes |-> nodes, current |-> current ]
    ELSE LET index == command[i] IN
         IF index >= ALPHABET_SIZE
         THEN insert_walk(nodes, current, command, i + 1)
         ELSE LET child == Append(current, index)
                  grown == IF child \in DOMAIN nodes
                           THEN nodes
                           ELSE nodes @@ (child :> trie_node_create)
              IN insert_walk(grown, child, command, i + 1)

\* Mutant: a second insert of a known command is counted again.
trie_insert_recount(t, command, time) ==
    IF Len(command) = 0 THEN t
    ELSE LET w == insert_walk(t.nodes, <<>>, command, 1)
             cur == w.nodes[w.current]
             marked == [cur EXCEPT !.is_end_of_word = TRUE,
                                   !.full_command = command]
             upd == [marked EXCEPT !.frequency = @ + 1, !.last_used = time]
         IN [ nodes |-> [w.nodes EXCEPT ![w.current] = upd],
              total_commands |-> t.total_commands + 1 ]

trie_insert(t, command, time) ==
    IF Len(command) = 0 THEN t
    ELSE LET w == insert_walk(t.nodes, <<>>, command, 1)
             cur == w.nodes[w.current]
             isnew == ~cur.is_end_of_word
             marked == IF isnew
                       THEN [cur EXCEPT !.is_end_of_word = TRUE,
                                        !.full_command = command]
                       ELSE cur
             upd == [marked EXCEPT !.frequency = @ + 1, !.last_used = time]
         IN [ nodes |-> [w.nodes EXCEPT ![w.current] = upd],
              total_commands |->
                  t.total_commands + (IF isnew THEN 1 ELSE 0) ]

\* The lookup walk shared by trie_search, trie_get_best_completion,
\* trie_update_frequency and trie_find_node: <<>> when a byte is >=
\* ALPHABET_SIZE or has no child, else <<the node reached>>.
RECURSIVE find_walk(_, _, _, _)
find_walk(nodes, current, s, i) ==
    IF i > Len(s)
    THEN <<current>>
    ELSE LET index == s[i] IN
         IF index >= ALPHABET_SIZE \/ Append(current, index) \notin DOMAIN nodes
         THEN <<>>
         ELSE find_walk(nodes, Append(current, index), s, i + 1)

trie_search(t, prefix) == find_walk(t.nodes, <<>>, prefix, 1) # <<>>

\* The largest and the smallest value of an int such as start_index, score
\* and frequency.
INT_MAX == 2147483647
INT_MIN == (0 - INT_MAX) - 1

\* a + b in an int that wraps around on overflow
int_add(a, b) ==
    IF a >= 0 /\ b > INT_MAX - a
    THEN ((a - INT_MAX) - 1) + ((b - INT_MAX) - 1)
    ELSE IF a < 0 /\ b < INT_MIN - a
         THEN (a - INT_MIN) + (b - INT_MIN)
         ELSE a + b

\* a * 100 in an int that wraps around on overflow: 100 = 64 + 32 + 4
int_times_100(a) ==
    LET x2 == int_add(a, a)
        x4 == int_add(x2, x2)
        x8 == int_add(x4, x4)
        x16 == int_add(x8, x8)
        x32 == int_add(x16, x16)
        x64 == int_add(x32, x32)
    IN int_add(int_add(x64, x32), x4)

recency_bonus(node, time) == IF time - node.last_used < 3600 THEN 50 ELSE 0

\* frequency * 100 + recency_bonus leaves the range of int
score_overflows(node, time) ==
    \/ node.frequency > INT_MAX \div 100
    \/ node.frequency < 0 - (INT_MAX \div 100)
    \/ node.frequency * 100 > INT_MAX - recency_bonus(node, time)

\* int score = node->frequency * 100 + recency_bonus, as a build that wraps
\* on overflow computes it.
completion_score(node, time) ==
    IF score_overflows(node, time)
    THEN int_add(int_times_100(node.frequency), recency_bonus(node, time))
    ELSE node.frequency * 100 + recency_bonus(node, time)

\* The score's overflow is a signed overflow, which is undefined: the build
\* either wraps the value around or traps and ends the process (-ftrapv).
ScoreOutcomes == { "wraps", "traps" }

\* The bytes i with node->children[i] set.
child_bytes(nodes, node) ==
    { p[Len(p)] : p \in { q \in DOMAIN nodes :
                            /\ Len(q) = Len(node) + 1
                            /\ SubSeq(q, 1, Len(node)) = node } }

\* for (i = 0; i < ALPHABET_SIZE && stack_top < limit; i++) push children[i]:
\* the children are pushed in ascending byte order while the stack has room.
RECURSIVE push_children(_, _, _)
push_children(node, stack, bytes) ==
    IF bytes = {} \/ ~(Len(stack) < StackLimit)
    THEN stack
    ELSE LET i == CHOOSE b \in bytes : \A c \in bytes : b <= c
         IN push_children(node, Append(stack, Append(node, i)), bytes \ {i})

\* The explicit-stack DFS; best_node is <<>> (NULL) or <<node>>.  A process
\* that traps on the score of a terminal node returns nothing.
RECURSIVE best_dfs(_, _, _, _, _, _)
best_dfs(nodes, stack, best_node, best_score, time, overflow) ==
    IF Len(stack) = 0
    THEN best_node
    ELSE LET node == stack[Len(stack)]
             popped == SubSeq(stack, 1, Len(stack) - 1)
             score == completion_score(nodes[node], time)
             better == nodes[node].is_end_of_word /\ score > best_score
         IN IF /\ nodes[node].is_end_of_word
               /\ overflow = "traps"
               /\ score_overflows(nodes[node], time)
            THEN <<>>
            ELSE best_dfs(nodes,
                          push_children(node, popped, child_bytes(nodes, node)),
                          IF better THEN <<node>> ELSE best_node,
                          IF better THEN score ELSE best_score,
                          time, overflow)

\* The command returned, <<>> for NULL.
trie_get_best_completion(t, prefix, time, overflow) ==
    LET start == find_walk(t.nodes, <<>>, prefix, 1) IN
    IF start = <<>>
    THEN <<>>
    ELSE LET best == best_dfs(t.nodes, <<start[1]>>, <<>>, -1, time, overflow) IN
         IF best # <<>> THEN t.nodes[best[1]].full_command ELSE <<>>

trie_update_frequency(t, command, time) ==
    LET found == find_walk(t.nodes, <<>>, command, 1) IN
    IF found # <<>> /\ t.nodes[found[1]].is_end_of_word
    THEN [t EXCEPT !.nodes[found[1]] =
                       [@ EXCEPT !.frequency = @ + 1, !.last_used = time]]
    ELSE t

(***************************************************************************)
(* priority_queue.c                                                        *)
(***************************************************************************)

\* A queue is [entries, size, capacity, segv]: entries[i] is <<>> (NULL) or
\* <<entry>> for slot i in 0..MAX_MRU_SIZE-1; segv is set when the process
\* has been killed by a read through a NULL entry pointer.

pq_calculate_priority(frequency, timestamp, time) ==
    LET age_seconds == time - timestamp
        frequency_score == frequency * 100
        recency_score == IF age_seconds < 300 THEN 200
                         ELSE IF age_seconds < 1800 THEN 100
                         ELSE IF age_seconds < 3600 THEN 50
                         ELSE IF age_seconds < 86400 THEN 25
                         ELSE 0
    IN frequency_score + recency_score

pq_create_entry(command, frequency, timestamp, time) ==
    [ command |-> command, timestamp |-> timestamp, frequency |-> frequency,
      priority_score |-> pq_calculate_priority(frequency, timestamp, time) ]

pq_create ==
    [ entries |-> [i \in 0..(MAX_MRU_SIZE - 1) |-> <<>>],
      size |-> 0, capacity |-> MAX_MRU_SIZE, segv |-> FALSE ]

pq_swap(entries, a, b) ==
    [entries EXCEPT ![a] = entries[b], ![b] = entries[a]]

\* pq->entries[index]->priority_score reads through entries[index]: a NULL
\* there is a read at a small offset from address 0, which kills the process.
RECURSIVE pq_heapify_up(_, _)
pq_heapify_up(q, index) ==
    IF q.segv \/ index <= 0 THEN q
    ELSE LET parent == (index - 1) \div 2 IN
         IF q.entries[index] = <<>> \/ q.entries[parent] = <<>>
         THEN [q EXCEPT !.segv = TRUE]
         ELSE IF q.entries[index][1].priority_score
                     > q.entries[parent][1].priority_score
              THEN pq_heapify_up(
                       [q EXCEPT !.entries = pq_swap(q.entries, index, parent)],
                       parent)
              ELSE q

\* Mutant: the right child is never compared.
RECURSIVE pq_heapify_down_left_only(_, _)
pq_heapify_down_left_only(q, index) ==
    IF q.segv THEN q
    ELSE
    LET left == 2 * index + 1
        score(i) == q.entries[i][1].priority_score
        largest == IF left < q.size /\ score(left) > score(index)
                   THEN left ELSE index
    IN IF largest # index
       THEN pq_heapify_down_left_only(
                [q EXCEPT !.entries = pq_swap(q.entries, index, largest)],
                largest)
       ELSE q

RECURSIVE pq_heapify_down(_, _)
pq_heapify_down(q, index) ==
    IF q.segv THEN q
    ELSE
    LET left == 2 * index + 1
        right == 2 * index + 2
        score(i) == q.entries[i][1].priority_score
        largest1 == IF left < q.size /\ score(left) > score(index)
                    THEN left ELSE index
        largest == IF right < q.size /\ score(right) > score(largest1)
                   THEN right ELSE largest1
    IN IF largest # index
       THEN pq_heapify_down(
                [q EXCEPT !.entries = pq_swap(q.entries, index, largest)],
                largest)
       ELSE q

\* Mutant: only the root is compared with the command.
pq_find_root_only(q, command) ==
    IF q.size > 0 /\ q.entries[0] # <<>> /\ q.entries[0][1].command = command
    THEN 0 ELSE 0 - 1

\* The first slot holding command, -1 when no slot does.
pq_find(q, command) ==
    LET hits == { i \in 0..(q.size - 1) : q.entries[i][1].command = command }
    IN IF hits = {} THEN -1 ELSE CHOOSE i \in hits : \A j \in hits : i <= j

\* The scan for the minimum: the first slot whose score no slot undercuts.
pq_min_index(q) ==
    CHOOSE m \in 0..(q.size - 1) :
        /\ \A i \in 0..(q.size - 1) :
               q.entries[m][1].priority_score <= q.entries[i][1].priority_score
        /\ \A i \in 0..(m - 1) :
               q.entries[i][1].priority_score > q.entries[m][1].priority_score

\* The eviction block of pq_insert: the minimum is destroyed, the last entry
\* moved into its slot, and the heap repaired from that slot.
pq_evict_min(q) ==
    LET min_index == pq_min_index(q)
        moved == [q.entries EXCEPT ![min_index] = q.entries[q.size - 1]]
        cleared == [moved EXCEPT ![q.size - 1] = <<>>]
        shrunk == [q EXCEPT !.entries = cleared, !.size = q.size - 1]
    IN pq_heapify_down(pq_heapify_up(shrunk, min_index), min_index)

pq_insert(q, command, frequency, timestamp, time) ==
    LET i == pq_find(q, command) IN
    IF i >= 0
    THEN LET updated ==
                 [q EXCEPT !.entries[i] =
                     << pq_create_entry(command, frequency, timestamp, time) >>]
         IN pq_heapify_down(pq_heapify_up(updated, i), i)
    ELSE LET room == IF q.size >= q.capacity THEN pq_evict_min(q) ELSE q IN
         IF room.segv THEN room
         ELSE LET placed ==
                      [room EXCEPT !.entries[room.size] =
                          << pq_create_entry(command, frequency, timestamp, time) >>]
              IN [pq_heapify_up(placed, room.size) EXCEPT !.size = room.size + 1]

\* Mutant: the last occupied slot is returned.
pq_peek_last(q) == IF q.size = 0 THEN <<>> ELSE q.entries[q.size - 1]

pq_peek(q) == IF q.size = 0 THEN <<>> ELSE q.entries[0]

\* [queue after the call, the entry returned (<<>> for NULL)]
pq_extract_max(q) ==
    IF q.size = 0 THEN [ q |-> q, max_entry |-> <<>> ]
    ELSE LET moved == [q.entries EXCEPT ![0] = q.entries[q.size - 1]]
             cleared == [moved EXCEPT ![q.size - 1] = <<>>]
             shrunk == [q EXCEPT !.entries = cleared, !.size = q.size - 1]
         IN [ q |-> IF shrunk.size > 0 THEN pq_heapify_down(shrunk, 0) ELSE shrunk,
              max_entry |-> q.entries[0] ]

pq_update_command(q, command, time) ==
    LET i == pq_find(q, command) IN
    IF i >= 0
    THEN LET old == q.entries[i][1]
             updated ==
                 [q EXCEPT !.entries[i] =
                     << pq_create_entry(command, old.frequency + 1, time, time) >>]
         IN pq_heapify_down(pq_heapify_up(updated, i), i)
    ELSE pq_insert(q, command, 1, time, time)

pq_contains(q, command) == pq_find(q, command) >= 0

(***************************************************************************)
(* autocomplete.c: the store                                               *)
(***************************************************************************)

PIPE == 124
NEWLINE == 10

no_file == [ exists |-> FALSE, bytes |-> <<>> ]

\* printf's %d and %ld: decimal digits ('0' = 48), '-' (45) when negative.
RECURSIVE format_digits(_)
format_digits(n) ==
    IF n < 10 THEN << 48 + n >>
    ELSE Append(format_digits(n \div 10), 48 + (n % 10))

format_int(n) == IF n < 0 THEN <<45>> \o format_digits(0 - n) ELSE format_digits(n)

\* argv[4] of "history": the decimal text of an index.
NavIndexArgs == { format_int(i) : i \in ((0 - 2)..3) \cup {INT_MAX} }

\* atoi and atol: leading white space, an optional sign, then digits up to
\* the first byte that is none; 0 when there are no digits.
RECURSIVE skip_space(_, _)
skip_space(s, i) ==
    IF i <= Len(s) /\ s[i] \in {32, 9, 10, 11, 12, 13}
    THEN skip_space(s, i + 1) ELSE i

RECURSIVE digits_value(_, _, _)
digits_value(s, i, acc) ==
    IF i <= Len(s) /\ s[i] >= 48 /\ s[i] <= 57
    THEN digits_value(s, i + 1, acc * 10 + (s[i] - 48)) ELSE acc

atoi(s) ==
    LET i == skip_space(s, 1)
        signed == i <= Len(s) /\ s[i] \in {43, 45}
        magnitude == digits_value(s, IF signed THEN i + 1 ELSE i, 0)
    IN IF signed /\ s[i] = 45 THEN 0 - magnitude ELSE magnitude

\* The lines fgets hands out, each without its '\n'; a last line that has no
\* '\n' is a line too.
RECURSIVE file_lines(_, _, _)
file_lines(bytes, i, line) ==
    IF i > Len(bytes)
    THEN IF line = <<>> THEN <<>> ELSE <<line>>
    ELSE IF bytes[i] = NEWLINE
         THEN <<line>> \o file_lines(bytes, i + 1, <<>>)
         ELSE file_lines(bytes, i + 1, Append(line, bytes[i]))

\* The successive tokens strtok(line, "|") returns: the maximal runs of
\* bytes other than '|' (empty runs are never tokens).
RECURSIVE strtok(_, _, _)
strtok(line, i, token) ==
    IF i > Len(line)
    THEN IF token = <<>> THEN <<>> ELSE <<token>>
    ELSE IF line[i] = PIPE
         THEN (IF token = <<>> THEN <<>> ELSE <<token>>)
                  \o strtok(line, i + 1, <<>>)
         ELSE strtok(line, i + 1, Append(token, line[i]))

\* <<>> (NULL) or <<the terminal node of cmd>>
trie_find_node(t, cmd) ==
    LET found == find_walk(t.nodes, <<>>, cmd, 1) IN
    IF found # <<>> /\ t.nodes[found[1]].is_end_of_word THEN found ELSE <<>>

\* The line save_trie_to_file writes for cmd.
save_line(t, cmd, time) ==
    LET node == trie_find_node(t, cmd)
        freq == IF node # <<>> THEN t.nodes[node[1]].frequency ELSE 1
        ts == IF node # <<>> THEN t.nodes[node[1]].last_used ELSE time
    IN cmd \o <<PIPE>> \o format_int(freq) \o <<PIPE>> \o format_int(ts)
           \o <<NEWLINE>>

RECURSIVE save_lines(_, _, _, _)
save_lines(t, history, i, time) ==
    IF i > Len(history) THEN <<>>
    ELSE save_line(t, history[i], time) \o save_lines(t, history, i + 1, time)

\* The file after save_trie_to_file: truncated and rewritten.
save_trie_to_file(t, history, time) ==
    [ exists |-> TRUE, bytes |-> save_lines(t, history, 1, time) ]

\* Mutant: the stored frequency and timestamp are not written back.
load_line_keep_insert(g, line, time) ==
    IF line = <<>> THEN g
    ELSE LET tokens == strtok(line, 1, <<>>) IN
         IF tokens = <<>> THEN g
         ELSE [ command_trie |-> trie_insert(g.command_trie, tokens[1], time),
                history_array |-> Append(g.history_array, tokens[1]) ]

\* One round of the fgets loop of load_trie_from_file.
load_line(g, line, time) ==
    IF line = <<>> THEN g
    ELSE LET tokens == strtok(line, 1, <<>>) IN
         IF tokens = <<>> THEN g
         ELSE LET cmd == tokens[1]
                  t1 == trie_insert(g.command_trie, cmd, time)
                  node == trie_find_node(t1, cmd)
                  t2 == IF node # <<>> /\ Len(tokens) >= 3
                        THEN [t1 EXCEPT !.nodes[node[1]] =
                                 [@ EXCEPT !.frequency = atoi(tokens[2]),
                                           !.last_used = atoi(tokens[3])]]
                        ELSE t1
              IN [ command_trie |-> t2,
                   history_array |-> Append(g.history_array, cmd) ]

RECURSIVE load_lines(_, _, _, _)
load_lines(g, lines, i, time) ==
    IF i > Len(lines) THEN g
    ELSE load_lines(load_line(g, lines[i], time), lines, i + 1, time)

\* g is [command_trie, history_array]; a missing file leaves g as it is.
load_trie_from_file(g, file, time) ==
    IF ~file.exists THEN g
    ELSE load_lines([ command_trie |-> g.command_trie, history_array |-> <<>> ],
                    file_lines(file.bytes, 1, <<>>), 1, time)

\* stdin is the sequence of its lines, the '\n' of each already removed.
RECURSIVE load_history_from_stdin(_, _, _, _)
load_history_from_stdin(g, stdin, i, time) ==
    IF i > Len(stdin) THEN g
    ELSE IF Len(stdin[i]) = 0
         THEN load_history_from_stdin(g, stdin, i + 1, time)
         ELSE load_history_from_stdin(
                  [ command_trie |-> trie_insert(g.command_trie, stdin[i], time),
                    history_array |-> Append(g.history_array, stdin[i]) ],
                  stdin, i + 1, time)

\* The count initialize_autocomplete_from_stdin reads from the cache file:
\* atoi of its first line, 0 when there is no file or no line.
read_cache_count(file) ==
    LET lines == file_lines(file.bytes, 1, <<>>) IN
    IF ~file.exists \/ file.bytes = <<>> THEN 0
    ELSE atoi(lines[1])

fresh_globals == [ command_trie |-> trie_create, history_array |-> <<>> ]

\* Mutant: an incoming set as large as the cache also replaces it.
initialize_from_stdin_on_tie(file, stdin, time) ==
    LET cache_count == read_cache_count(file)
        g == load_history_from_stdin(fresh_globals, stdin, 1, time)
        stdin_count == Len(g.history_array)
    IN IF stdin_count >= cache_count
       THEN [ g |-> g, store |-> save_trie_to_file(g.command_trie,
                                                   g.history_array, time),
              stdin_count |-> stdin_count, cache_count |-> cache_count ]
       ELSE [ g |-> IF cache_count > 0
                    THEN load_trie_from_file(g, file, time) ELSE g,
              store |-> file,
              stdin_count |-> stdin_count, cache_count |-> cache_count ]

\* [g, store, stdin_count, cache_count] after the call.
initialize_autocomplete_from_stdin(file, stdin, time) ==
    LET cache_count == read_cache_count(file)
        g == load_history_from_stdin(fresh_globals, stdin, 1, time)
        stdin_count == Len(g.history_array)
    IN IF stdin_count > cache_count
       THEN [ g |-> g, store |-> save_trie_to_file(g.command_trie,
                                                   g.history_array, time),
              stdin_count |-> stdin_count, cache_count |-> cache_count ]
       ELSE [ g |-> IF cache_count > 0
                    THEN load_trie_from_file(g, file, time) ELSE g,
              store |-> file,
              stdin_count |-> stdin_count, cache_count |-> cache_count ]

initialize_autocomplete_from_cache(file, time) ==
    load_trie_from_file(fresh_globals, file, time)

is_prefix(prefix, s) ==
    Len(prefix) <= Len(s) /\ SubSeq(s, 1, Len(prefix)) = prefix

\* filtered_history: the entries that start with prefix, in recording order.
filter_history_by_prefix(history, prefix) ==
    SelectSeq(history, LAMBDA h : is_prefix(prefix, h))

get_ghost_text(t, prefix, time, overflow) ==
    IF Len(prefix) = 0 THEN <<>>
    ELSE trie_get_best_completion(t, prefix, time, overflow)

\* idx++ and idx-- on an int.  Past INT_MAX or INT_MIN the step is a signed
\* overflow, which is undefined: the build either wraps the value around
\* (overflow = "wraps") or compares it as if it had not wrapped
\* (overflow = "saturates").
OverflowOutcomes == { "wraps", "saturates" }

step_overflows(start_index, direction) ==
    \/ direction = "up" /\ start_index = INT_MAX
    \/ direction = "down" /\ start_index = INT_MIN

step_index(start_index, direction, overflow) ==
    IF direction = "up"
    THEN IF start_index = INT_MAX
         THEN IF overflow = "wraps" THEN INT_MIN ELSE INT_MAX
         ELSE start_index + 1
    ELSE IF direction = "down"
         THEN IF start_index = INT_MIN
              THEN IF overflow = "wraps" THEN INT_MAX ELSE INT_MIN
              ELSE start_index - 1
         ELSE start_index

\* Mutant: stepping past the newest entry stays on it instead of wrapping.
navigate_no_wrap(history, prefix, direction, start_index, overflow) ==
    LET filtered == filter_history_by_prefix(history, prefix)
        filtered_count == Len(filtered)
        stepped == step_index(start_index, direction, overflow)
        idx == IF stepped >= filtered_count THEN filtered_count - 1
               ELSE IF stepped < -1 THEN filtered_count - 1
               ELSE stepped
    IN IF filtered_count = 0
       THEN [ text |-> prefix, new_index |-> 0 ]
       ELSE IF idx = -1
            THEN [ text |-> prefix, new_index |-> idx ]
            ELSE [ text |-> filtered[filtered_count - idx], new_index |-> idx ]

\* [text, new_index]; filtered is indexed from 1, so filtered_history
\* [actual_idx] is filtered[actual_idx + 1].
navigate_filtered_history(history, prefix, direction, start_index, overflow) ==
    LET filtered == filter_history_by_prefix(history, prefix)
        filtered_count == Len(filtered)
        stepped == step_index(start_index, direction, overflow)
        idx == IF stepped >= filtered_count THEN -1
               ELSE IF stepped < -1 THEN filtered_count - 1
               ELSE stepped
        mapped == filtered_count - 1 - idx
        actual_idx == IF mapped < 0 \/ mapped >= filtered_count THEN 0 ELSE mapped
    IN IF filtered_count = 0
       THEN [ text |-> prefix, new_index |-> 0 ]
       ELSE IF idx = -1
            THEN [ text |-> prefix, new_index |-> idx ]
            ELSE [ text |-> filtered[actual_idx + 1], new_index |-> idx ]

\* [g, store] after the call; an empty command changes nothing.
update_command_usage(g, file, command, time) ==
    IF Len(command) = 0 THEN [ g |-> g, store |-> file ]
    ELSE LET t1 == trie_insert(g.command_trie, command, time)
             exists == \E i \in 1..Len(g.history_array) :
                           g.history_array[i] = command
             history == IF exists THEN g.history_array
                        ELSE Append(g.history_array, command)
             t2 == trie_update_frequency(t1, command, time)
         IN [ g |-> [ command_trie |-> t2, history_array |-> history ],
              store |-> save_trie_to_file(t2, history, time) ]

\* Mutant: a completion that is shown is also recorded as used.
main_ghost_records_usage(file, prefix, overflow, time) ==
    LET g == initialize_autocomplete_from_cache(file, time)
        result == get_ghost_text(g.command_trie, prefix, time, overflow)
        r == update_command_usage(g, file, result, time)
    IN [ g |-> r.g, store |-> r.store, result |-> result ]

\* main for "init": argv[2] is read into current_buffer, and
\* initialize_autocomplete_from_stdin takes no argument, so the stream is
\* merged without looking at current_buffer.
main_init(file, current_buffer, stdin, time) ==
    initialize_autocomplete_from_stdin(file, stdin, time)

\* main for "ghost": [g, store, result] when the process ends.  The globals
\* are loaded from the cache; get_ghost_text only reads them.
main_ghost(file, prefix, overflow, time) ==
    LET g == initialize_autocomplete_from_cache(file, time)
    IN [ g |-> g, store |-> file,
         result |-> get_ghost_text(g.command_trie, prefix, time, overflow) ]

\* main for "history": [g, store, result]; start_index is atoi(argv[4]).
\* filter_history_by_prefix fills filtered_history with pointers into
\* history_array and leaves history_array itself alone.
main_history(file, prefix, direction, index_arg, overflow, time) ==
    LET g == initialize_autocomplete_from_cache(file, time)
    IN [ g |-> g, store |-> file,
         result |-> navigate_filtered_history(g.history_array, prefix,
                                              direction, atoi(index_arg),
                                              overflow) ]

\* Mutant: every operation goes through load_history_from_stdin.
stdin_calls_any_operation(operation, stdin) == Len(stdin) + 1

\* The getline calls main makes on stdin: only "init" goes through
\* initialize_autocomplete_from_stdin, whose load_history_from_stdin calls
\* getline once for each line and once more to see the end of the stream;
\* every other operation goes through initialize_autocomplete_from_cache.
stdin_calls(operation, stdin) ==
    IF operation = "init" THEN Len(stdin) + 1 ELSE 0

\* An invocation that has not started.
idle_proc ==
    [ pc |-> "idle", command |-> <<>>, g |-> fresh_globals, buf |-> <<>>,
      epoch |-> 0, before |-> <<>> ]

\* The file once a stream opened with fopen(path, "w") is flushed by fclose:
\* buf is written at the stream's own offset 0, and the bytes the file holds
\* beyond it stay.
fclose_flush(file, buf) ==
    [ exists |-> TRUE,
      bytes |-> IF Len(file.bytes) > Len(buf)
                THEN buf \o SubSeq(file.bytes, Len(buf) + 1, Len(file.bytes))
                ELSE buf ]

(***************************************************************************)
(* The trie driven through its API                                         *)
(***************************************************************************)

Call(name, arg, res) == [ name |-> name, arg |-> arg, res |-> res ]

TrieInit ==
    /\ now = 100000
    /\ op = Call("start", <<>>, <<>>)
    /\ trie = trie_create
    /\ inserted = {}
    /\ trie_ops = 0
    /\ pq = pq_create
    /\ pq_ops = 0
    /\ store = no_file
    /\ command_trie = trie_create
    /\ history_array = <<>>
    /\ invocations = 0
    /\ stdin_reads = 0
    /\ procs = [ p \in RaceProcs |-> idle_proc ]
    /\ save_log = [ opens |-> 0, last |-> 0 ]

TrieInsert ==
    \E c \in TrieCommands :
        /\ trie_ops < MaxTrieOps
        /\ trie' = trie_insert(trie, c, now)
        /\ inserted' = inserted \cup {c}
        /\ trie_ops' = trie_ops + 1
        /\ op' = Call("trie_insert", c, <<>>)
        /\ UNCHANGED <<now, pq_vars, main_vars, race_vars>>

TrieUpdateFrequency ==
    \E c \in TrieCommands :
        /\ trie_ops < MaxTrieOps
        /\ trie' = trie_update_frequency(trie, c, now)
        /\ trie_ops' = trie_ops + 1
        /\ op' = Call("trie_update_frequency", c, <<>>)
        /\ UNCHANGED <<now, inserted, pq_vars, main_vars, race_vars>>

TrieSearch ==
    \E p \in TriePrefixes :
        /\ op' = Call("trie_search", p, <<trie_search(trie, p)>>)
        /\ UNCHANGED <<now, trie_vars, pq_vars, main_vars, race_vars>>

TrieGetBestCompletion ==
    \E p \in TriePrefixes, overflow \in ScoreOutcomes :
        /\ op' = Call("trie_get_best_completion", p,
                      trie_get_best_completion(trie, p, now, overflow))
        /\ UNCHANGED <<now, trie_vars, pq_vars, main_vars, race_vars>>

TrieTick ==
    \E t \in TrieClock :
        /\ t > now
        /\ now' = t
        /\ op' = Call("tick", <<>>, <<>>)
        /\ UNCHANGED <<trie_vars, pq_vars, main_vars, race_vars>>

TrieNext ==
    \/ TrieInsert
    \/ TrieUpdateFrequency
    \/ TrieSearch
    \/ TrieGetBestCompletion
    \/ TrieTick

SpecTrie == TrieInit /\ [][TrieNext]_vars

(***************************************************************************)
(* The priority queue driven through its API                               *)
(***************************************************************************)

PqInit ==
    /\ now = 100000
    /\ op = Call("start", <<>>, <<>>)
    /\ trie = trie_create
    /\ inserted = {}
    /\ trie_ops = 0
    /\ pq = pq_create
    /\ pq_ops = 0
    /\ store = no_file
    /\ command_trie = trie_create
    /\ history_array = <<>>
    /\ invocations = 0
    /\ stdin_reads = 0
    /\ procs = [ p \in RaceProcs |-> idle_proc ]
    /\ save_log = [ opens |-> 0, last |-> 0 ]

\* A call is made only while the process is alive.
PqInsert ==
    \E c \in PqCommands, f \in PqFrequencies, ts \in PqTimestamps :
        /\ ~pq.segv
        /\ pq_ops < MaxPqOps
        /\ pq' = pq_insert(pq, c, f, ts, now)
        /\ pq_ops' = pq_ops + 1
        /\ op' = Call("pq_insert", c, <<f, ts>>)
        /\ UNCHANGED <<now, trie_vars, main_vars, race_vars>>

PqUpdateCommand ==
    \E c \in PqCommands :
        /\ ~pq.segv
        /\ pq_ops < MaxPqOps
        /\ pq' = pq_update_command(pq, c, now)
        /\ pq_ops' = pq_ops + 1
        /\ op' = Call("pq_update_command", c, <<>>)
        /\ UNCHANGED <<now, trie_vars, main_vars, race_vars>>

PqExtractMax ==
    /\ ~pq.segv
    /\ pq_ops < MaxPqOps
    /\ pq' = pq_extract_max(pq).q
    /\ pq_ops' = pq_ops + 1
    /\ op' = Call("pq_extract_max", <<>>, pq_extract_max(pq).max_entry)
    /\ UNCHANGED <<now, trie_vars, main_vars, race_vars>>

PqPeek ==
    /\ ~pq.segv
    /\ op' = Call("pq_peek", <<>>, pq_peek(pq))
    /\ UNCHANGED <<now, trie_vars, pq_vars, main_vars, race_vars>>

PqContains ==
    \E c \in PqCommands :
        /\ ~pq.segv
        /\ op' = Call("pq_contains", c, <<pq_contains(pq, c)>>)
        /\ UNCHANGED <<now, trie_vars, pq_vars, main_vars, race_vars>>

PqTick ==
    \E t \in PqClock :
        /\ t > now
        /\ now' = t
        /\ op' = Call("tick", <<>>, <<>>)
        /\ UNCHANGED <<trie_vars, pq_vars, main_vars, race_vars>>

PqNext ==
    \/ PqInsert
    \/ PqUpdateCommand
    \/ PqExtractMax
    \/ PqPeek
    \/ PqContains
    \/ PqTick

SpecPq == PqInit /\ [][PqNext]_vars

(***************************************************************************)
(* The program, one invocation at a time (main)                            *)
(***************************************************************************)

\* Every invocation is a new process: it starts from fresh globals, and
\* command_trie and history_array record the globals it ended with.
MainStart ==
    /\ now = 100000
    /\ op = Call("start", <<>>, <<>>)
    /\ trie = trie_create
    /\ inserted = {}
    /\ trie_ops = 0
    /\ pq = pq_create
    /\ pq_ops = 0
    /\ store = no_file
    /\ command_trie = trie_create
    /\ history_array = <<>>
    /\ invocations = 0
    /\ stdin_reads = 0
    /\ procs = [ p \in RaceProcs |-> idle_proc ]
    /\ save_log = [ opens |-> 0, last |-> 0 ]

\* autocomplete init < stdin
MainInit ==
    \E stdin \in MainStdin :
    \E current_buffer \in InitBuffers :
    \E r \in {main_init(store, current_buffer, stdin, now)} :
        /\ invocations < MaxInvocations
        /\ store' = r.store
        /\ command_trie' = r.g.command_trie
        /\ history_array' = r.g.history_array
        /\ invocations' = invocations + 1
        /\ op' = Call("init", stdin, <<r.stdin_count, r.cache_count>>)
        /\ stdin_reads' = stdin_calls("init", stdin)
        /\ UNCHANGED <<now, trie_vars, pq_vars, race_vars>>

\* autocomplete update <buffer> <command>
MainUpdate ==
    \E g \in {initialize_autocomplete_from_cache(store, now)} :
    \E c \in MainCommands :
    \E r \in {update_command_usage(g, store, c, now)} :
           /\ invocations < MaxInvocations
           /\ store' = r.store
           /\ command_trie' = r.g.command_trie
           /\ history_array' = r.g.history_array
           /\ invocations' = invocations + 1
           /\ op' = Call("update", c, <<>>)
           /\ stdin_reads' = stdin_calls("update", <<>>)
           /\ UNCHANGED <<now, trie_vars, pq_vars, race_vars>>

\* autocomplete ghost <buffer>
MainGhost ==
    \E p \in MainPrefixes, overflow \in ScoreOutcomes :
    \E r \in {main_ghost(store, p, overflow, now)} :
        /\ store' = r.store
        /\ command_trie' = r.g.command_trie
        /\ history_array' = r.g.history_array
        /\ op' = Call("ghost", p, r.result)
        /\ stdin_reads' = stdin_calls("ghost", <<>>)
        /\ UNCHANGED <<now, invocations, trie_vars, pq_vars, race_vars>>

\* autocomplete history <buffer> <direction> <index>
MainHistory ==
    \E p \in MainPrefixes, d \in NavDirections, a \in NavIndexArgs :
    \E overflow \in IF step_overflows(atoi(a), d)
                    THEN OverflowOutcomes ELSE {"wraps"} :
    \E r \in {main_history(store, p, d, a, overflow, now)} :
        /\ store' = r.store
        /\ command_trie' = r.g.command_trie
        /\ history_array' = r.g.history_array
        /\ op' = Call("history", <<p, d, atoi(a)>>,
                      <<r.result.text, r.result.new_index>>)
        /\ stdin_reads' = stdin_calls("history", <<>>)
        /\ UNCHANGED <<now, invocations, trie_vars, pq_vars, race_vars>>

\* Time passes between invocations.
MainTick ==
    \E t \in MainClock :
        /\ t > now
        /\ now' = t
        /\ UNCHANGED <<op, main_vars, trie_vars, pq_vars, race_vars>>

MainNext ==
    \/ MainInit
    \/ MainUpdate
    \/ MainGhost
    \/ MainTick

SpecMain == MainStart /\ [][MainNext]_vars

NavNext ==
    \/ MainInit
    \/ MainUpdate
    \/ MainHistory

SpecNav == MainStart /\ [][NavNext]_vars

\* Both queries between the invocations that write.
QueryNext ==
    \/ MainInit
    \/ MainUpdate
    \/ MainGhost
    \/ MainHistory

SpecQuery == MainStart /\ [][QueryNext]_vars

(***************************************************************************)
(* Overlapping "update" invocations on one store                           *)
(***************************************************************************)

\* A process is started: autocomplete update <buffer> <command>
RaceStart(p) ==
    \E c \in RaceCommands :
        /\ procs[p].pc \in {"idle", "done"}
        /\ invocations < MaxRaceInvocations
        /\ invocations' = invocations + 1
        /\ procs' = [procs EXCEPT ![p] = [idle_proc EXCEPT !.pc = "started",
                                                            !.command = c]]
        /\ op' = Call("race_start", p, c)
        /\ UNCHANGED <<now, stdin_reads, store, command_trie, history_array, save_log,
                       trie_vars, pq_vars>>

\* main calls initialize_autocomplete_from_cache: the file is read whole.
RaceLoad(p) ==
    /\ procs[p].pc = "started"
    /\ procs' = [procs EXCEPT ![p] =
                   [@ EXCEPT !.pc = "loaded",
                             !.g = initialize_autocomplete_from_cache(store, now),
                             !.epoch = save_log.opens]]
    /\ op' = Call("race_load", p, <<>>)
    /\ UNCHANGED <<now, main_vars, save_log, trie_vars, pq_vars>>

\* update_command_usage up to the fopen(TRIE_DATA_FILE, "w") of
\* save_trie_to_file: the file is truncated, the lines go to the stream's
\* buffer.
RaceOpen(p) ==
    \E r \in {update_command_usage(procs[p].g, store, procs[p].command, now)} :
        /\ procs[p].pc = "loaded"
        /\ procs' = [procs EXCEPT ![p] =
                       [@ EXCEPT !.pc = "writing", !.g = r.g,
                                 !.buf = r.store.bytes,
                                 !.before = store.bytes]]
        /\ store' = [ exists |-> TRUE, bytes |-> <<>> ]
        /\ save_log' = [save_log EXCEPT !.opens = @ + 1]
        /\ op' = Call("race_open", p, <<>>)
        /\ UNCHANGED <<now, stdin_reads, command_trie, history_array, invocations,
                       trie_vars, pq_vars>>

\* fclose(f): the buffer reaches the file, the process ends.
RaceFlush(p) ==
    /\ procs[p].pc = "writing"
    /\ store' = fclose_flush(store, procs[p].buf)
    /\ procs' = [procs EXCEPT ![p] = [@ EXCEPT !.pc = "done"]]
    /\ save_log' = [save_log EXCEPT !.last = p]
    /\ op' = Call("race_flush", p, <<>>)
    /\ UNCHANGED <<now, stdin_reads, command_trie, history_array, invocations,
                   trie_vars, pq_vars>>

RaceNext ==
    \E p \in RaceProcs :
        \/ RaceStart(p)
        \/ RaceLoad(p)
        \/ RaceOpen(p)
        \/ RaceFlush(p)

SpecRace == MainStart /\ [][RaceNext]_vars

(***************************************************************************)
(* Loading cache files of any content                                      *)
(***************************************************************************)

\* The cache file is whatever an earlier version of the program, or anything
\* else, left at TRIE_DATA_FILE.
LoadInit ==
    /\ now = 100000
    /\ op = Call("start", <<>>, <<>>)
    /\ trie = trie_create
    /\ inserted = {}
    /\ trie_ops = 0
    /\ pq = pq_create
    /\ pq_ops = 0
    /\ store \in { [ exists |-> TRUE, bytes |-> b ] : b \in LoadFiles }
    /\ command_trie = trie_create
    /\ history_array = <<>>
    /\ invocations = 0
    /\ stdin_reads = 0
    /\ procs = [ p \in RaceProcs |-> idle_proc ]
    /\ save_log = [ opens |-> 0, last |-> 0 ]

LoadNext ==
    \/ MainGhost
    \/ MainTick

SpecLoad == LoadInit /\ [][LoadNext]_vars

(***************************************************************************)
(* Claims about the store and the invocations                              *)
(***************************************************************************)

\* The record layout <command>|<frequency>|<last_used>: the last two fields
\* of a line are decimal numbers and the command is everything before them.
IsNumeral(s) ==
    LET digits == IF Len(s) > 0 /\ s[1] = 45 THEN SubSeq(s, 2, Len(s)) ELSE s
    IN /\ Len(digits) > 0
       /\ \A i \in 1..Len(digits) : digits[i] >= 48 /\ digits[i] <= 57

PipesOf(line) == { i \in 1..Len(line) : line[i] = PIPE }

LastPipe(line) == CHOOSE i \in PipesOf(line) : \A j \in PipesOf(line) : j <= i

PrevPipe(line) ==
    CHOOSE i \in PipesOf(line) \ {LastPipe(line)} :
        \A j \in PipesOf(line) \ {LastPipe(line)} : j <= i

IsRecord(line) ==
    /\ Cardinality(PipesOf(line)) >= 2
    /\ PrevPipe(line) > 1
    /\ IsNumeral(SubSeq(line, PrevPipe(line) + 1, LastPipe(line) - 1))
    /\ IsNumeral(SubSeq(line, LastPipe(line) + 1, Len(line)))

RecordOf(line) ==
    [ command |-> SubSeq(line, 1, PrevPipe(line) - 1),
      frequency |-> atoi(SubSeq(line, PrevPipe(line) + 1, LastPipe(line) - 1)),
      last_used |-> atoi(SubSeq(line, LastPipe(line) + 1, Len(line))) ]

StoreLines(file) == IF file.exists THEN file_lines(file.bytes, 1, <<>>) ELSE <<>>

\* the records a store holds
StoreRecords(file) ==
    { RecordOf(StoreLines(file)[i]) :
          i \in { j \in 1..Len(StoreLines(file)) : IsRecord(StoreLines(file)[j]) } }

\* the lines of an input stream that are not blank
AcceptedLines(stdin) == SelectSeq(stdin, LAMBDA l : Len(l) > 0)

\* <<frequency, last_used>> the index holds for command c, <<>> when no
\* terminal node holds c
IndexValue(t, c) ==
    LET holders == { n \in DOMAIN t.nodes :
                       t.nodes[n].is_end_of_word /\ t.nodes[n].full_command = c }
    IN IF holders = {} THEN <<>>
       ELSE LET n == CHOOSE n \in holders : TRUE
            IN << t.nodes[n].frequency, t.nodes[n].last_used >>

\* the step is an invocation of init / update / ghost
InitStep == op'.name = "init" /\ invocations' = invocations + 1
UpdateStep == op'.name = "update" /\ invocations' = invocations + 1
GhostStep == op'.name = "ghost" /\ invocations' = invocations /\ now' = now

\* the last invocation wrote the store from its index
WroteStore ==
    \/ op.name = "update" /\ op.arg # <<>>
    \/ op.name = "init" /\ op.res[1] > op.res[2]

\* C1: in initialize, when the number of lines accepted from the input
\* stream is strictly greater than the cache_count read from the existing
\* store, the store is overwritten with one record per incoming line in
\* stream order; otherwise the store is left byte-for-byte unchanged.
C1_MergePolicy ==
    [][ InitStep =>
          LET incoming == AcceptedLines(op'.arg)
              lines == StoreLines(store')
          IN IF Len(incoming) > read_cache_count(store)
             THEN /\ store'.exists
                  /\ Len(lines) = Len(incoming)
                  /\ \A i \in 1..Len(lines) :
                         /\ IsRecord(lines[i])
                         /\ RecordOf(lines[i]).command = incoming[i]
             ELSE store' = store ]_vars

\* C1 witness: an init whose stream had lines, but no more than the count
\* read from the store, has run (the store was kept).
C1_Witness ==
    /\ op.name = "init"
    /\ op.res[1] >= 1
    /\ op.res[2] >= op.res[1]
    /\ Len(StoreLines(store)) >= 1

\* C2: save followed by load into a fresh index yields the same commands in
\* the same order, each with exactly the saved frequency and last_used.
C2_RoundTrip ==
    [][ (WroteStore /\ GhostStep) =>
          /\ history_array' = history_array
          /\ \A i \in 1..Len(history_array) :
                 IndexValue(command_trie', history_array[i])
                     = IndexValue(command_trie, history_array[i]) ]_vars

\* C10: when record_usage(c) with non-empty c completes, the store holds a
\* record for c whose frequency and last_used equal the values held in the
\* index, and still holds a record for every command it held before.
C10_RecordUsagePersists ==
    [][ (UpdateStep /\ op'.arg # <<>>) =>
          /\ \E rec \in StoreRecords(store') :
                 /\ rec.command = op'.arg
                 /\ << rec.frequency, rec.last_used >>
                        = IndexValue(command_trie', op'.arg)
          /\ \A old \in StoreRecords(store) :
                 \E rec \in StoreRecords(store') : rec.command = old.command ]_vars

\* C17: the cache_count initialize reads from a store written by save is the
\* number of records in that store, so after an initialize has written N
\* records a later initialize whose stream yields M <= N lines leaves the
\* store as it is.
C17_TruncatedHistoryProtection ==
    [][ ( /\ InitStep
          /\ op.name = "init"
          /\ op.res[1] > op.res[2]
          /\ Len(AcceptedLines(op'.arg)) <= Len(StoreLines(store)) ) =>
        ( /\ op'.res[2] = Len(StoreLines(store))
          /\ store' = store ) ]_vars

(***************************************************************************)
(* Claims about overlapping invocations                                    *)
(***************************************************************************)

\* both invocations have ended, and both loaded before either began to save
BothLoadedFirst ==
    /\ \A p \in RaceProcs : procs[p].pc = "done"
    /\ procs[1].epoch = procs[2].epoch
    /\ procs[1].command # procs[2].command

\* C12: when two record_usage invocations for different commands both load
\* the store before either saves, the final store is exactly the dataset
\* written by the invocation that saved last and holds no record of the
\* other invocation's command.
C12_LastWriterWins ==
    BothLoadedFirst =>
        \A w \in RaceProcs, l \in RaceProcs :
            (w = save_log.last /\ l # w) =>
                /\ store.bytes = procs[w].buf
                /\ \A rec \in StoreRecords(store) :
                       rec.command # procs[l].command

\* C19: an invocation that loads the store while another invocation is
\* saving observes the complete store as it was before that save or the
\* complete store after it, never an empty or partly written one.
C19_SaveIsAtomic ==
    [][ \A p \in RaceProcs, q \in RaceProcs :
            ( /\ p # q
              /\ procs[p].pc = "started"
              /\ procs'[p].pc = "loaded"
              /\ procs[q].pc = "writing" ) =>
            store.bytes \in { procs[q].before, procs[q].buf } ]_vars

(***************************************************************************)
(* Claims about loading                                                    *)
(***************************************************************************)

\* the fields of a line: the runs between its '|', empty runs included
RECURSIVE LineFields(_, _, _)
LineFields(line, i, field) ==
    IF i > Len(line) THEN << field >>
    ELSE IF line[i] = PIPE
         THEN << field >> \o LineFields(line, i + 1, <<>>)
         ELSE LineFields(line, i + 1, Append(field, line[i]))

\* a non-empty command followed by exactly two numeric fields
WellFormed(line) ==
    LET fields == LineFields(line, 1, <<>>) IN
    /\ Len(fields) = 3
    /\ Len(fields[1]) > 0
    /\ IsNumeral(fields[2])
    /\ IsNumeral(fields[3])

RECURSIVE WellFormedCommands(_, _)
WellFormedCommands(lines, i) ==
    IF i > Len(lines) THEN <<>>
    ELSE (IF WellFormed(lines[i])
          THEN << LineFields(lines[i], 1, <<>>)[1] >> ELSE <<>>)
             \o WellFormedCommands(lines, i + 1)

\* the commands held by the terminal nodes of an index
TerminalCommands(t) ==
    { t.nodes[n].full_command : n \in { m \in DOMAIN t.nodes : t.nodes[m].is_end_of_word } }

\* C13: load adds to the index and to the history record exactly the
\* commands of the well-formed lines (non-empty command, exactly two numeric
\* fields), in file order; any other line contributes nothing.
C13_LoadSkipsMalformed ==
    [][ GhostStep =>
          \A commands \in {WellFormedCommands(StoreLines(store), 1)} :
              /\ history_array' = commands
              /\ TerminalCommands(command_trie')
                     = { commands[i] : i \in 1..Len(commands) } ]_vars

(***************************************************************************)
(* Claims about queries                                                    *)
(***************************************************************************)

HistoryStep == op'.name = "history" /\ invocations' = invocations /\ now' = now

\* the index and the history record right after the store has been loaded
\* into a new process
LoadedGlobals == load_trie_from_file(fresh_globals, store, now)

EmptyTrieCall ==
    /\ trie_ops' = trie_ops + 1
    /\ op'.name \in {"trie_insert", "trie_update_frequency"}
    /\ op'.arg = <<>>

EmptyPqCall ==
    /\ pq_ops' = pq_ops + 1
    /\ op'.name \in {"pq_insert", "pq_update_command"}
    /\ op'.arg = <<>>

EmptyUpdateCall == UpdateStep /\ op'.arg = <<>>

\* C14: PrefixIndex insert and update_usage, record_usage and the ranked
\* set's insert_or_touch and touch_by_usage, called with the empty string,
\* leave the index, the ranked set, the history record and the store
\* unchanged.
C14_EmptyInputIsNoOp ==
    [][ /\ EmptyTrieCall => trie' = trie
        /\ EmptyPqCall => pq' = pq
        /\ EmptyUpdateCall =>
               /\ store' = store
               /\ history_array' = LoadedGlobals.history_array
               /\ command_trie' = LoadedGlobals.command_trie ]_vars

MatchCount(p) ==
    Cardinality({ k \in 1..Len(history_array) : is_prefix(p, history_array[k]) })

NavIndex(p, d, i) ==
    navigate_filtered_history(history_array, p, d, i, "wraps").new_index

RECURSIVE NavRepeat(_, _, _, _)
NavRepeat(p, d, i, k) ==
    IF k = 0 THEN i ELSE NavRepeat(p, d, NavIndex(p, d, i), k - 1)

NavForward(n, i) == IF i < n - 1 THEN i + 1 ELSE -1
NavBackward(n, i) == IF i >= 0 THEN i - 1 ELSE n - 1

\* C8: with filtered_count = n >= 1 and index i in -1..n-1, forward returns
\* i+1 if i < n-1 and -1 if i = n-1; backward returns i-1 if i >= 0 and n-1
\* if i = -1; n+1 steps one way return to i; forward then backward is i.
C8_NavigationWrap ==
    /\ \A p \in MainPrefixes :
           LET n == MatchCount(p) IN
           n >= 1 =>
               \A i \in (0 - 1)..(n - 1) :
                   /\ NavIndex(p, "up", i) = NavForward(n, i)
                   /\ NavIndex(p, "down", i) = NavBackward(n, i)
                   /\ NavRepeat(p, "up", i, n + 1) = i
                   /\ NavRepeat(p, "down", i, n + 1) = i
                   /\ NavIndex(p, "down", NavIndex(p, "up", i)) = i
    /\ op.name = "history" =>
           LET n == MatchCount(op.arg[1])
               i == op.arg[3]
           IN (n >= 1 /\ i >= -1 /\ i <= n - 1) =>
                  /\ op.arg[2] = "up" => op.res[2] = NavForward(n, i)
                  /\ op.arg[2] = "down" => op.res[2] = NavBackward(n, i)

\* C8 witness: a forward step from the oldest of three matching entries has
\* wrapped to the sentinel.
C8_Witness ==
    /\ op.name = "history"
    /\ MatchCount(op.arg[1]) = 3
    /\ op.arg[2] = "up"
    /\ op.arg[3] = 2
    /\ op.res[2] = -1

\* C9: when no recorded command starts with the prefix, navigate returns the
\* original input unchanged together with the sentinel index -1, for every
\* direction and every current index.
C9_EmptyFilterSentinel ==
    (op.name = "history" /\ MatchCount(op.arg[1]) = 0) =>
        op.res = << op.arg[1], -1 >>

(***************************************************************************)
(* Claims about the priority queue                                         *)
(***************************************************************************)

PqScore(q, i) == q.entries[i][1].priority_score

\* the commands held in the occupied slots below size
PqHeld(q) ==
    { q.entries[i][1].command :
          i \in { j \in 0..(q.size - 1) : q.entries[j] # <<>> } }

\* C3: after any sequence of pq_insert, pq_update_command and
\* pq_extract_max, every occupied non-root slot i has
\* score(parent(i)) >= score(i), every slot below size is occupied, and
\* 0 <= size <= capacity.  The score is the priority_score the entry holds.
C3_HeapInvariant ==
    /\ 0 <= pq.size
    /\ pq.size <= pq.capacity
    /\ \A i \in 0..(pq.size - 1) : pq.entries[i] # <<>>
    /\ \A i \in 1..(pq.size - 1) :
           PqScore(pq, (i - 1) \div 2) >= PqScore(pq, i)

\* C3 witness: an extraction from a full queue has sifted the moved entry
\* down and left a root that strictly dominates its child.
C3_Witness ==
    /\ op.name = "pq_extract_max"
    /\ op.res # <<>>
    /\ pq.size = MAX_MRU_SIZE - 1
    /\ PqScore(pq, 0) > PqScore(pq, 1)
    /\ op.res[1].priority_score > PqScore(pq, 0)

\* C4: inserting an absent command into a queue at capacity K always
\* completes, leaves size equal to K, removes exactly one previously held
\* entry, which had the minimum score among the entries held (whatever slot
\* it was in), and the new command is contained afterwards.
C4_BoundedEviction ==
    [][ ( /\ op'.name \in {"pq_insert", "pq_update_command"}
          /\ pq.size = pq.capacity
          /\ op'.arg \notin PqHeld(pq) ) =>
        ( /\ ~pq'.segv
          /\ pq'.size = pq.capacity
          /\ op'.arg \in PqHeld(pq')
          /\ \E i \in 0..(pq.size - 1) :
                 /\ PqHeld(pq') =
                        (PqHeld(pq) \ {pq.entries[i][1].command}) \cup {op'.arg}
                 /\ \A j \in 0..(pq.size - 1) :
                        PqScore(pq, i) <= PqScore(pq, j) ) ]_vars

(***************************************************************************)
(* Claims about the trie                                                   *)
(***************************************************************************)

\* path p lies in the subtree rooted at node r
UnderNode(r, p) == Len(p) >= Len(r) /\ SubSeq(p, 1, Len(r)) = r

\* the terminal nodes in the subtree under the node of prefix p (none when
\* the prefix has no node)
TerminalsUnder(t, p) ==
    IF p \in DOMAIN t.nodes
    THEN { n \in DOMAIN t.nodes : UnderNode(p, n) /\ t.nodes[n].is_end_of_word }
    ELSE {}

\* the frequency stored with command c: that of the terminal node holding c
\* as its full command, 0 when no node holds it
CommandFrequency(t, c) ==
    LET holders == { n \in DOMAIN t.nodes :
                       t.nodes[n].is_end_of_word /\ t.nodes[n].full_command = c }
    IN IF holders = {} THEN 0 ELSE t.nodes[CHOOSE n \in holders : TRUE].frequency

\* C5: best_completion(prefix) returns a terminal command whose score
\* (frequency*100, plus 50 when used less than 3600 s ago) is maximal among
\* all terminal nodes in the subtree under the prefix node.
C5_BestCompletionIsMaximal ==
    op.name = "trie_get_best_completion" =>
        LET terms == TerminalsUnder(trie, op.arg) IN
        terms # {} =>
            \E n \in terms :
                /\ trie.nodes[n].full_command = op.res
                /\ \A m \in terms :
                       completion_score(trie.nodes[n], now)
                           >= completion_score(trie.nodes[m], now)

\* C6: after any sequence of inserts, prefix_exists(P) is true for every
\* inserted command C and every literal prefix P of C, C itself included.
C6_PrefixCorrectness ==
    \A c \in inserted : \A k \in 0..Len(c) :
        trie_search(trie, SubSeq(c, 1, k))

\* C7: each insert of a non-empty command raises that command's frequency by
\* exactly 1 (so N inserts raise it by N) and raises total_commands by 1 if
\* the command had not been inserted before, by 0 if it had.
C7_InsertCount ==
    [][ (op'.name = "trie_insert" /\ op'.arg # <<>>) =>
          /\ CommandFrequency(trie', op'.arg)
                 = CommandFrequency(trie, op'.arg) + 1
          /\ trie'.total_commands
                 = trie.total_commands
                     + (IF op'.arg \in inserted THEN 0 ELSE 1) ]_vars

\* C15: best_completion(prefix) reports not found exactly when the prefix
\* has no node or no terminal node lies under it; with a terminal node under
\* the prefix a command is returned, whatever frequency and last_used the
\* nodes hold after load.
C15_NotFoundOnlyWithoutTerminal ==
    (op.name = "ghost" /\ op.arg # <<>>) =>
        (op.res = <<>> <=> TerminalsUnder(command_trie, op.arg) = {})

(***************************************************************************)
(* Claims about what initialize leaves in memory                           *)
(***************************************************************************)

\* C18: when initialize keeps the store (incoming_count <= cache_count), the
\* history record and the terminal commands of the index are afterwards
\* exactly the commands of the store, with the stored frequency and
\* last_used, and best_completion returns no command that is not in the
\* store.
C18_StoreIsAuthoritative ==
    [][ (InitStep /\ op'.res[1] <= op'.res[2]) =>
          \A lines \in {StoreLines(store')} :
              /\ Len(history_array') = Len(lines)
              /\ \A i \in 1..Len(lines) :
                     /\ IsRecord(lines[i])
                     /\ history_array'[i] = RecordOf(lines[i]).command
                     /\ IndexValue(command_trie', history_array'[i])
                            = << RecordOf(lines[i]).frequency,
                                 RecordOf(lines[i]).last_used >>
              /\ TerminalCommands(command_trie')
                     = { history_array'[i] : i \in 1..Len(history_array') }
              /\ \A p \in MainPrefixes \ {<<>>} :
                     \/ get_ghost_text(command_trie', p, now, "wraps") = <<>>
                     \/ \E i \in 1..Len(history_array') :
                            history_array'[i]
                                = get_ghost_text(command_trie', p, now, "wraps") ]_vars

\* C20: after any sequence of initialize, load and record_usage no string
\* occurs twice in the history record, and the saved store has at most one
\* record for a command.
C20_HistoryIsDistinct ==
    /\ \A i \in 1..Len(history_array), j \in 1..Len(history_array) :
           history_array[i] = history_array[j] => i = j
    /\ \A lines \in {StoreLines(store)} :
           \A i \in 1..Len(lines), j \in 1..Len(lines) :
               (IsRecord(lines[i]) /\ IsRecord(lines[j]) /\ i # j) =>
                   RecordOf(lines[i]).command # RecordOf(lines[j]).command

(***************************************************************************)
(* Claims about the pair navigate returns                                  *)
(***************************************************************************)

\* the recorded commands that start with prefix p, oldest first
MatchingHistory(p) ==
    SelectSeq(history_array,
              LAMBDA h : Len(h) >= Len(p) /\ \A k \in 1..Len(p) : h[k] = p[k])

\* C21: when navigate returns index i >= 0 its text is the (i+1)-th newest
\* recorded command that starts with the prefix; when it returns -1 its text
\* is the original input.
C21_TextMatchesIndex ==
    op.name = "history" =>
        \A matching \in {MatchingHistory(op.arg[1])} :
            /\ op.res[2] >= 0 =>
                   /\ op.res[2] < Len(matching)
                   /\ op.res[1] = matching[Len(matching) - op.res[2]]
            /\ op.res[2] = -1 => op.res[1] = op.arg[1]

(***************************************************************************)
(* Claims about the trie's count and root                                  *)
(***************************************************************************)

\* C22: after any sequence of inserts total_commands is the number of
\* distinct non-empty command strings inserted.
C22_CountIsExact ==
    trie.total_commands = Cardinality(inserted \ {<<>>})

\* C23: after any sequence of insert and update_usage with arbitrary
\* command bytes the root is not terminal and stores no command.
C23_RootNeverTerminal ==
    /\ ~trie.nodes[<<>>].is_end_of_word
    /\ trie.nodes[<<>>].full_command = <<>>

\* the step is a call of trie_update_frequency
UpdateFrequencyStep ==
    trie_ops' = trie_ops + 1 /\ op'.name = "trie_update_frequency"

\* C24: update_usage(command) changes nothing when the command was not
\* inserted; when it was, the frequency of the command's terminal node
\* grows by exactly 1, its last_used becomes the current time and nothing
\* else changes.
C24_UpdateUsageDoesNotInsert ==
    [][ UpdateFrequencyStep =>
          IF op'.arg \in inserted \ {<<>>}
          THEN \E n \in DOMAIN trie.nodes :
                   /\ trie.nodes[n].is_end_of_word
                   /\ trie.nodes[n].full_command = op'.arg
                   /\ trie' = [trie EXCEPT !.nodes[n] =
                                  [@ EXCEPT !.frequency = @ + 1,
                                            !.last_used = now]]
          ELSE trie' = trie ]_vars

(***************************************************************************)
(* Claims about the queue's entries                                        *)
(***************************************************************************)

PqInsertStep == pq_ops' = pq_ops + 1 /\ op'.name = "pq_insert"

\* C25: no two occupied slots hold the same command, and pq_insert of a
\* command already held leaves size unchanged and sets that entry's
\* frequency and timestamp to the values supplied.
C25_EntriesAreUnique ==
    [][ /\ \A i \in 0..(pq'.size - 1), j \in 0..(pq'.size - 1) :
               ( /\ i # j
                 /\ pq'.entries[i] # <<>>
                 /\ pq'.entries[j] # <<>> ) =>
               pq'.entries[i][1].command # pq'.entries[j][1].command
        /\ (PqInsertStep /\ op'.arg \in PqHeld(pq)) =>
               /\ pq'.size = pq.size
               /\ \E i \in 0..(pq'.size - 1) :
                      /\ pq'.entries[i][1].command = op'.arg
                      /\ pq'.entries[i][1].frequency = op'.res[1]
                      /\ pq'.entries[i][1].timestamp = op'.res[2] ]_vars

\* C25 witness: pq_insert has touched the root of a two-entry queue; its new
\* score only equals the other entry's, which a newly placed entry could not
\* have reached the root with.
C25_Witness ==
    /\ op.name = "pq_insert"
    /\ pq.size = 2
    /\ pq.entries[0][1].command = op.arg
    /\ pq.entries[0][1].frequency = op.res[1]
    /\ pq.entries[0][1].timestamp = op.res[2]
    /\ PqScore(pq, 0) = PqScore(pq, 1)

\* the entries held in the slots below size
PqEntries(q) ==
    { q.entries[i][1] : i \in { j \in 0..(q.size - 1) : q.entries[j] # <<>> } }

PqExtractStep == pq_ops' = pq_ops + 1 /\ op'.name = "pq_extract_max"

\* C26: on a non-empty queue pq_peek and pq_extract_max return an entry
\* whose score is >= the score of every entry held; pq_peek changes nothing;
\* pq_extract_max removes exactly that entry; on an empty queue both return
\* NULL and change nothing.
C26_PeekAndExtractReturnMax ==
    [][ /\ op'.name = "pq_peek" =>
               /\ pq' = pq
               /\ IF pq.size = 0 THEN op'.res = <<>>
                  ELSE /\ op'.res # <<>>
                       /\ op'.res[1] \in PqEntries(pq)
                       /\ \A e \in PqEntries(pq) :
                              op'.res[1].priority_score >= e.priority_score
        /\ PqExtractStep =>
               IF pq.size = 0 THEN op'.res = <<>> /\ pq' = pq
               ELSE /\ op'.res # <<>>
                    /\ op'.res[1] \in PqEntries(pq)
                    /\ \A e \in PqEntries(pq) :
                           op'.res[1].priority_score >= e.priority_score
                    /\ pq'.size = pq.size - 1
                    /\ ~pq_contains(pq', op'.res[1].command)
                    /\ PqEntries(pq') = PqEntries(pq) \ {op'.res[1]} ]_vars

\* C26 witness: the maximum of two entries has been extracted and the
\* smaller one is left.
C26_Witness ==
    /\ op.name = "pq_extract_max"
    /\ op.res # <<>>
    /\ pq.size = 1
    /\ op.res[1].priority_score > PqScore(pq, 0)
    /\ op.res[1].command \notin PqHeld(pq)

\* C27: at every moment the score of every entry held equals
\* frequency * 100 + recency(now - timestamp) computed with the current
\* time, also after time has advanced since the entry was written.
C27_ScoreIsComputedAtReadTime ==
    \A e \in PqEntries(pq) :
        e.priority_score = pq_calculate_priority(e.frequency, e.timestamp, now)

\* C28: the queue keeps the highest-scoring commands: when pq_insert of a
\* command not held completes, no entry that is no longer held has a score
\* strictly greater than the score of an entry that is held.
C28_KeepsHighestScoring ==
    [][ (PqInsertStep /\ op'.arg \notin PqHeld(pq) /\ ~pq'.segv) =>
          \A gone \in PqEntries(pq) \ PqEntries(pq') :
              \A kept \in PqEntries(pq') :
                  gone.priority_score <= kept.priority_score ]_vars

(***************************************************************************)
(* Claims about the incoming dataset of the merge                          *)
(***************************************************************************)

\* the number of lines of the stream that are neither blank nor equal to b
IncomingLines(stdin, b) ==
    Cardinality({ i \in 1..Len(stdin) : stdin[i] # <<>> /\ stdin[i] # b })

\* C29: the incoming dataset of the merge excludes blank lines and every
\* input line equal to the supplied current-buffer line: for every buffer
\* handed to initialize, incoming_count is the number of the other lines, and
\* a buffer the store did not hold is afterwards neither in the history
\* record nor in the index.
C29_IncomingExcludesBuffer ==
    [][ InitStep =>
          \A b \in InitBuffers :
          \A r \in {main_init(store, b, op'.arg, now)} :
              /\ r.stdin_count = IncomingLines(op'.arg, b)
              /\ (b # <<>> /\ b \notin TerminalCommands(LoadedGlobals.command_trie)) =>
                     /\ \A i \in 1..Len(r.g.history_array) :
                            r.g.history_array[i] # b
                     /\ b \notin TerminalCommands(r.g.command_trie) ]_vars

\* The part of C29 about blank lines: incoming_count is the number of
\* non-blank lines, and no blank line enters the history record.
C29_IncomingExcludesBlank ==
    [][ InitStep =>
          /\ op'.res[1] = IncomingLines(op'.arg, <<>>)
          /\ (op'.res[1] > op'.res[2]) =>
                 \A i \in 1..Len(history_array') : history_array'[i] # <<>> ]_vars

(***************************************************************************)
(* Claims about navigate on every input index                              *)
(***************************************************************************)

\* the input index plus the step of the direction is at least n
SteppedAtLeast(i, d, n) ==
    \/ d = "up" /\ i >= n - 1
    \/ d = "down" /\ i > n
    \/ d \notin {"up", "down"} /\ i >= n

\* the input index plus the step of the direction is below -1
SteppedBelowSentinel(i, d) ==
    \/ d = "up" /\ i < -2
    \/ d = "down" /\ i < 0
    \/ d \notin {"up", "down"} /\ i < -1

\* C30: when n >= 1 recorded commands start with the prefix, navigate
\* returns an index in -1..n-1 for every input index and every direction; an
\* input index whose stepped value is >= n gives -1, one whose stepped value
\* is < -1 gives n-1, and a returned text other than the input is one of the
\* n matching commands.
C30_EveryIndexIsClamped ==
    op.name = "history" =>
        \A matching \in {MatchingHistory(op.arg[1])} :
        \A n \in {Len(matching)} :
            n >= 1 =>
                /\ op.res[2] \in (0 - 1)..(n - 1)
                /\ SteppedAtLeast(op.arg[3], op.arg[2], n) => op.res[2] = -1
                /\ SteppedBelowSentinel(op.arg[3], op.arg[2]) =>
                       op.res[2] = n - 1
                /\ op.res[2] >= 0 =>
                       \E k \in 1..n : op.res[1] = matching[k]

\* The part of C30 that does not depend on the stepped value: the returned
\* index is in -1..n-1 and the text read is one of the n matching commands.
C30_IndexInRange ==
    op.name = "history" =>
        \A matching \in {MatchingHistory(op.arg[1])} :
        \A n \in {Len(matching)} :
            n >= 1 =>
                /\ op.res[2] \in (0 - 1)..(n - 1)
                /\ op.res[2] >= 0 =>
                       \E k \in 1..n : op.res[1] = matching[k]

(***************************************************************************)
(* Claims about the frequency record_usage persists                        *)
(***************************************************************************)

\* the frequencies the store's records give for command c
StoredFrequencies(file, c) ==
    { rec.frequency : rec \in { r \in StoreRecords(file) : r.command = c } }

\* C31: each completed record_usage(c) with non-empty c raises the persisted
\* frequency of c by exactly 2: a command the store did not hold is stored
\* with frequency 2, and a stored frequency f becomes f + 2 (so k successive
\* invocations take f to f + 2k).
C31_RecordUsageAddsTwo ==
    [][ (UpdateStep /\ op'.arg # <<>>) =>
          \A before \in {StoredFrequencies(store, op'.arg)} :
          \A after \in {StoredFrequencies(store', op'.arg)} :
              IF before = {}
              THEN after = {2}
              ELSE after = { f + 2 : f \in before } ]_vars

(***************************************************************************)
(* Claims about the command best_completion returns                        *)
(***************************************************************************)

\* C32: every command best_completion(prefix) returns has the queried prefix
\* as a literal prefix of its text and is a command that was inserted into
\* the index.
C32_CompletionExtendsPrefix ==
    (op.name = "trie_get_best_completion" /\ op.res # <<>>) =>
        /\ is_prefix(op.arg, op.res)
        /\ op.res \in inserted

\* The part of C32 about membership: a returned command was inserted.
C32_CompletionWasInserted ==
    (op.name = "trie_get_best_completion" /\ op.res # <<>>) =>
        op.res \in inserted

(***************************************************************************)
(* Claims about the arithmetic of the completion score                     *)
(***************************************************************************)

\* C33: in the completion score frequency strictly dominates recency: of two
\* terminal commands under the queried prefix with frequencies f1 > f2 >= 0,
\* the one with f1 has the strictly greater score whatever the two last_used
\* times are, and the one with f2 is not returned.
C33_FrequencyDominatesRecency ==
    (op.name = "ghost" /\ op.arg # <<>>) =>
        \A terms \in {TerminalsUnder(command_trie, op.arg)} :
        \A n \in terms, m \in terms :
            ( /\ command_trie.nodes[n].frequency > command_trie.nodes[m].frequency
              /\ command_trie.nodes[m].frequency >= 0 ) =>
                /\ completion_score(command_trie.nodes[n], now)
                       > completion_score(command_trie.nodes[m], now)
                /\ op.res # command_trie.nodes[m].full_command

\* C33 for frequencies whose score is an int: frequency * 100 + bonus does
\* not overflow for either command.
C33_DominatesWithoutOverflow ==
    (op.name = "ghost" /\ op.arg # <<>>) =>
        \A terms \in {TerminalsUnder(command_trie, op.arg)} :
        \A n \in terms, m \in terms :
            ( /\ command_trie.nodes[n].frequency > command_trie.nodes[m].frequency
              /\ command_trie.nodes[m].frequency >= 0
              /\ ~score_overflows(command_trie.nodes[n], now)
              /\ ~score_overflows(command_trie.nodes[m], now) ) =>
                /\ completion_score(command_trie.nodes[n], now)
                       > completion_score(command_trie.nodes[m], now)
                /\ op.res # command_trie.nodes[m].full_command

====
